---- MODULE Spec2Model ----
(***************************************************************************)
(* envoi-s3: a command-line dispatcher that picks one of the S3 clients    *)
(* s5cmd, s4cmd and "aws s3", augments the arguments and the environment   *)
(* of the child, optionally assumes an IAM role first, runs the client and *)
(* exits with a status derived from the child's.                           *)
(*                                                                         *)
(* A run of main() is the sequence of steps                                *)
(*   main -> parsed -> determined -> ready -> executed -> exited           *)
(* Python dictionaries are functions with a finite domain of strings,      *)
(* Python lists are sequences, Python's None is the string None.           *)
(***************************************************************************)
EXTENDS Integers, Sequences, FiniteSets, TLC

VARIABLES
    pc,             \* position of main()
    argv,           \* sys.argv[1:]
    environ,        \* os.environ of the dispatcher
    path,           \* the commands shutil.which / execvp find on PATH
    opts,           \* optparse Values: client_name, role_arn
    remaining_args, \* the positional arguments optparse leaves (a list, mutated in place)
    client_name,    \* result of determine_client
    env_vars,       \* the environment map of main (a dict, mutated in place)
    assumed,        \* the STS call: "no" (not made), "ok", "failed"
    credentials,    \* the Credentials object STS returned
    child,          \* the child process subprocess.run started
    exit_code,      \* what execute_client returned
    raised,         \* the exception that left main(), or None
    status          \* exit status of the dispatcher

vars == <<pc, argv, environ, path, opts, remaining_args, client_name, env_vars,
          assumed, credentials, child, exit_code, raised, status>>

None == "<None>"

\* Largest exit code a child terminates with in the model (0..MaxExitCode).
MaxExitCode == 2

\* returncode of a child that never ran; exit_code / status not yet set.
NoCode == -1

EmptyEnv == [k \in {} |-> ""]

NoChild == [started |-> FALSE, cmd |-> <<>>, env |-> EmptyEnv, returncode |-> NoCode]

NoCredentials == [AccessKeyId |-> None, SecretAccessKey |-> None, SessionToken |-> None]

(***************************************************************************)
(* Python primitives the program uses.                                     *)
(***************************************************************************)

\* truth value of a str-or-None: None and '' are false
Truthy(v) == v # None /\ v # ""

\* a or b
PyOr(a, b) == IF Truthy(a) THEN a ELSE b

\* x in list
Contains(list, x) == \E i \in 1..Len(list) : list[i] = x

\* dict.get(k) / os.getenv(k): None when the key is absent
Get(d, k) == IF k \in DOMAIN d THEN d[k] ELSE None

\* dict.setdefault(k, v): an existing entry, whatever its value, is kept
SetDefault(d, k, v) == IF k \in DOMAIN d THEN d ELSE d @@ (k :> v)

\* d[k] = v
SetItem(d, k, v) == (k :> v) @@ d

getenv(k) == Get(environ, k)

(***************************************************************************)
(* Argument and environment augmentation.  Each function returns the pair  *)
(* (cmd_args, env_vars) as a record.  A value the code binds to a local    *)
(* name and reads several times is passed on as an operator argument.      *)
(***************************************************************************)

\* if key: env_vars.setdefault(name, key)
setdefault_if_set(ev, name, key) ==
    IF Truthy(key) THEN SetDefault(ev, name, key) ELSE ev

\* augment_common assigning the keys instead of env_vars.setdefault
augment_common_overwrite(cmd_args, ev) ==
    [cmd_args |-> cmd_args,
     env_vars |-> (IF Truthy(getenv("S3_ACCESS_KEY"))
                   THEN ("AWS_ACCESS_KEY_ID" :> getenv("S3_ACCESS_KEY")) ELSE EmptyEnv)
                  @@ (IF Truthy(getenv("S3_SECRET_KEY"))
                      THEN ("AWS_SECRET_ACCESS_KEY" :> getenv("S3_SECRET_KEY")) ELSE EmptyEnv)
                  @@ ev]

augment_common(cmd_args, ev) ==
    [cmd_args |-> cmd_args,
     env_vars |-> setdefault_if_set(
                      setdefault_if_set(ev, "AWS_ACCESS_KEY_ID", getenv("S3_ACCESS_KEY")),
                      "AWS_SECRET_ACCESS_KEY", getenv("S3_SECRET_KEY"))]

\* if '--endpoint-url' not in cmd_args and endpoint_url is not None: extend
aws_extend_endpoint(cmd_args, endpoint_url) ==
    IF ~Contains(cmd_args, "--endpoint-url") /\ endpoint_url # None
    THEN cmd_args \o <<"--endpoint-url", endpoint_url>>
    ELSE cmd_args

\* augment_aws_arguments reading S3_ENDPOINT_URL before AWS_ENDPOINT_URL_S3
augment_aws_arguments_s3_first(cmd_args, ev) ==
    [cmd_args |-> aws_extend_endpoint(
                      augment_common(cmd_args, ev).cmd_args,
                      PyOr(getenv("S3_ENDPOINT_URL"), getenv("AWS_ENDPOINT_URL_S3"))),
     env_vars |-> augment_common(cmd_args, ev).env_vars]

augment_aws_arguments(cmd_args, ev) ==
    [cmd_args |-> aws_extend_endpoint(
                      augment_common(cmd_args, ev).cmd_args,
                      PyOr(getenv("AWS_ENDPOINT_URL_S3"), getenv("S3_ENDPOINT_URL"))),
     env_vars |-> augment_common(cmd_args, ev).env_vars]

\* s4cmd_extend_endpoint skipping the endpoint when only S3_ENDPOINT_URL gives it
s4cmd_extend_endpoint_aws_only(cmd_args, endpoint_url) ==
    IF endpoint_url # None /\ endpoint_url = getenv("AWS_ENDPOINT_URL_S3")
    THEN cmd_args \o <<"--endpoint", endpoint_url>>
    ELSE cmd_args

\* if endpoint_url is not None: extend
s4cmd_extend_endpoint(cmd_args, endpoint_url) ==
    IF endpoint_url # None
    THEN cmd_args \o <<"--endpoint", endpoint_url>>
    ELSE cmd_args

\* if '--region' not in cmd_args: region = getenv; if region is not None: extend
s4cmd_extend_region(cmd_args, region) ==
    IF ~Contains(cmd_args, "--region") /\ region # None
    THEN cmd_args \o <<"--region", region>>
    ELSE cmd_args

augment_s4cmd_arguments(cmd_args, ev) ==
    [cmd_args |-> s4cmd_extend_region(
                      s4cmd_extend_endpoint(
                          augment_common(cmd_args, ev).cmd_args,
                          PyOr(getenv("AWS_ENDPOINT_URL_S3"), getenv("S3_ENDPOINT_URL"))),
                      getenv("S3_REGION")),
     env_vars |-> augment_common(cmd_args, ev).env_vars]

augment_s5cmd_arguments(cmd_args, ev) ==
    augment_common(cmd_args, ev)

(***************************************************************************)
(* subprocess.run(cmd, check=True, env=ev).  rc is the exit code the child *)
(* terminates with if it runs.  The binary is cmd[1]; when it is not on    *)
(* PATH no child starts and FileNotFoundError is raised; check=True raises *)
(* CalledProcessError for every non-zero exit code.  The result also       *)
(* carries the list and the dict of the caller after the in-place updates. *)
(***************************************************************************)
subprocess_run(cmd, cmd_args, ev, rc) ==
    IF cmd[1] \notin path
    THEN [exc |-> "FileNotFoundError", child |-> NoChild,
          cmd_args |-> cmd_args, env_vars |-> ev]
    ELSE [exc |-> IF rc # 0 THEN "CalledProcessError" ELSE None,
          child |-> [started |-> TRUE, cmd |-> cmd, env |-> ev, returncode |-> rc],
          cmd_args |-> cmd_args, env_vars |-> ev]

\* cmd = prefix + cmd_args; process = subprocess.run(cmd, check=True, env=env_vars)
run_augmented(prefix, a, rc) ==
    subprocess_run(prefix \o a.cmd_args, a.cmd_args, a.env_vars, rc)

\* aws_wrapper running ['aws'] + cmd_args
aws_wrapper_without_s3(cmd_args, ev, rc) ==
    run_augmented(<<"aws">>, augment_aws_arguments(cmd_args, ev), rc)

\* The wrappers: exc is the exception raised (None: `process` is returned).
aws_wrapper(cmd_args, ev, rc) ==
    run_augmented(<<"aws", "s3">>, augment_aws_arguments(cmd_args, ev), rc)

s4cmd_wrapper(cmd_args, ev, rc) ==
    run_augmented(<<"s4cmd">>, augment_s4cmd_arguments(cmd_args, ev), rc)

s5cmd_wrapper(cmd_args, ev, rc) ==
    run_augmented(<<"s5cmd">>, augment_s5cmd_arguments(cmd_args, ev), rc)

(***************************************************************************)
(* execute_client: exit_code is the value returned, raised the exception   *)
(* that leaves the function (None: it returns).                            *)
(***************************************************************************)

\* execute_client_result catching CalledProcessError only
execute_client_result_narrow_except(known, r) ==
    [exit_code |-> IF r.exc = "CalledProcessError" THEN 1
                   ELSE IF ~known THEN 1
                   ELSE r.child.returncode,
     raised |-> IF r.exc = "CalledProcessError" THEN None ELSE r.exc,
     child |-> r.child, cmd_args |-> r.cmd_args, env_vars |-> r.env_vars]

\* the try block's outcome r turned into the return value
execute_client_result(known, r) ==
    [exit_code |-> IF r.exc # None THEN 1          \* except Exception: exit_code = 1
                   ELSE IF ~known THEN 1           \* else: exit_code = 1
                   ELSE r.child.returncode,        \* if process: process.returncode
     raised |-> None,
     child |-> r.child, cmd_args |-> r.cmd_args, env_vars |-> r.env_vars]

execute_client(name, cli_args, ev, rc) ==
    execute_client_result(
        name \in {"s4cmd", "s5cmd", "aws"},
        IF name = "s4cmd" THEN s4cmd_wrapper(cli_args, ev, rc)
        ELSE IF name = "s5cmd" THEN s5cmd_wrapper(cli_args, ev, rc)
        ELSE IF name = "aws" THEN aws_wrapper(cli_args, ev, rc)
        ELSE [exc |-> None, child |-> NoChild, cmd_args |-> cli_args, env_vars |-> ev])

(***************************************************************************)
(* parse_command_line.  optparse walks the tokens of the command line:     *)
(* "--" ends option parsing, "--client" and "--role-arn" take the next     *)
(* token as their value (the last occurrence wins), any other token that   *)
(* begins with "-" is an unknown option (error, exit status 2), everything *)
(* else is a positional argument.  Strings are atomic here, so the tokens  *)
(* that begin with "-" are listed.                                         *)
(***************************************************************************)
OptionLike == {"--client", "--role-arn", "--endpoint-url", "--endpoint", "--region"}

ParseError == [error |-> TRUE, values |-> [client_name |-> None, role_arn |-> None],
               args |-> <<>>]

RECURSIVE process_args(_, _, _)
process_args(rargs, largs, values) ==
    IF rargs = <<>>
    THEN [error |-> FALSE, values |-> values, args |-> largs]
    ELSE LET arg == Head(rargs) IN
         IF arg = "--"
         THEN [error |-> FALSE, values |-> values, args |-> largs \o Tail(rargs)]
         ELSE IF arg = "--client"
         THEN IF Len(rargs) < 2 THEN ParseError
              ELSE process_args(SubSeq(rargs, 3, Len(rargs)), largs,
                                [values EXCEPT !.client_name = rargs[2]])
         ELSE IF arg = "--role-arn"
         THEN IF Len(rargs) < 2 THEN ParseError
              ELSE process_args(SubSeq(rargs, 3, Len(rargs)), largs,
                                [values EXCEPT !.role_arn = rargs[2]])
         ELSE IF arg \in OptionLike
         THEN ParseError
         ELSE process_args(Tail(rargs), Append(largs, arg), values)

parse_command_line(cli_args, ev) ==
    process_args(cli_args, <<>>, [client_name |-> "s5cmd", role_arn |-> None])

RECURSIVE determine_first_executable_command(_)
determine_first_executable_command(commands) ==
    IF commands = <<>> THEN None
    ELSE IF Head(commands) \in path THEN Head(commands)
    ELSE determine_first_executable_command(Tail(commands))

determine_client(o) ==
    PyOr(o.client_name, determine_first_executable_command(<<"s5cmd", "s4cmd", "aws">>))

\* assume_role_using_arn keeping credentials already in the map
assume_role_using_arn_setdefault(role_arn, ev, creds) ==
    SetDefault(SetDefault(SetDefault(ev, "AWS_ACCESS_KEY_ID", creds.AccessKeyId),
                          "AWS_SECRET_ACCESS_KEY", creds.SecretAccessKey),
               "AWS_SESSION_TOKEN", creds.SessionToken)

assume_role_using_arn(role_arn, ev, creds) ==
    LET e1 == SetItem(ev, "AWS_ACCESS_KEY_ID", creds.AccessKeyId)
        e2 == SetItem(e1, "AWS_SECRET_ACCESS_KEY", creds.SecretAccessKey)
    IN  SetItem(e2, "AWS_SESSION_TOKEN", creds.SessionToken)

(***************************************************************************)
(* Inputs.                                                                 *)
(***************************************************************************)
Clients == {"s5cmd", "s4cmd", "aws"}

\* one entry of an environment: n = v, or nothing when v is None (n unset)
Bind(n, v) == IF v = None THEN EmptyEnv ELSE (n :> v)

\* sys.argv[1:]: an optional --client, an optional --role-arn, the rest
ClientParts ==
    {<<>>} \cup {<<"--client", c>> : c \in Clients \cup {"bogus", ""}}

RoleParts ==
    {<<>>, <<"--role-arn", "arn:aws:iam::1:role/r">>, <<"--role-arn", "">>}

RestParts ==
    { <<"ls">>,
      <<"ls", "--endpoint-url", "http://user">>,
      <<"--", "ls", "--endpoint-url", "http://user">>,
      <<"ls", "--client">> }

\* what sts.assume_role returns when it succeeds
TemporaryCredentials ==
    { [AccessKeyId |-> "ASIATEMP", SecretAccessKey |-> "tempsecret",
       SessionToken |-> "temptoken"] }

\* the arguments a caller hands to execute_client
ArgLists ==
    { <<>>,
      <<"ls">>,
      <<"ls", "--endpoint-url", "http://user">>,
      <<"ls", "--endpoint", "http://user">>,
      <<"ls", "--region", "eu">>,
      <<"--region", "eu", "--endpoint", "http://user", "ls">> }

(***************************************************************************)
(* main(): the dispatcher started from the command line.                   *)
(***************************************************************************)
Init ==
    /\ pc = "main"
    /\ \E c \in ClientParts, r \in RoleParts, t \in RestParts : argv = c \o r \o t
    /\ \E ak \in {None, "envkey"}, sk \in {None, "envsecret"}, tok \in {None, "envtoken"},
          s3ak \in {None, "s3key"}, s3sk \in {None, "s3secret"},
          ep \in {None, "http://s3"} :
            environ = Bind("AWS_ACCESS_KEY_ID", ak) @@ Bind("AWS_SECRET_ACCESS_KEY", sk)
                      @@ Bind("AWS_SESSION_TOKEN", tok) @@ Bind("S3_ACCESS_KEY", s3ak)
                      @@ Bind("S3_SECRET_KEY", s3sk) @@ Bind("S3_ENDPOINT_URL", ep)
                      @@ ("HOME" :> "/root")
    /\ path \in SUBSET Clients
    /\ opts = [client_name |-> None, role_arn |-> None]
    /\ remaining_args = <<>>
    /\ client_name = None
    /\ env_vars = EmptyEnv
    /\ assumed = "no"
    /\ credentials = NoCredentials
    /\ child = NoChild
    /\ exit_code = NoCode
    /\ raised = None
    /\ status = NoCode

\* cli_args = sys.argv[1:]; env_vars = os.environ.copy(); parse_command_line
MainParseCommandLine ==
    /\ pc = "main"
    /\ LET p == parse_command_line(argv, environ) IN
         IF p.error
         THEN /\ pc' = "exited"
              /\ raised' = "SystemExit"
              /\ status' = 2
              /\ UNCHANGED <<opts, remaining_args>>
         ELSE /\ pc' = "parsed"
              /\ opts' = p.values
              /\ remaining_args' = p.args
              /\ UNCHANGED <<raised, status>>
    /\ env_vars' = environ
    /\ UNCHANGED <<argv, environ, path, client_name, assumed, credentials, child, exit_code>>

MainDetermineClient ==
    /\ pc = "parsed"
    /\ client_name' = determine_client(opts)
    /\ pc' = "determined"
    /\ UNCHANGED <<argv, environ, path, opts, remaining_args, env_vars, assumed,
                   credentials, child, exit_code, raised, status>>

\* MainAssumeRole with the STS failure caught and main going on
MainAssumeRole_failure_swallowed ==
    /\ pc = "determined"
    /\ Truthy(opts.role_arn)
    /\ \/ \E creds \in TemporaryCredentials :
            /\ env_vars' = assume_role_using_arn(opts.role_arn, env_vars, creds)
            /\ credentials' = creds
            /\ assumed' = "ok"
       \/ /\ assumed' = "failed"
          /\ UNCHANGED <<env_vars, credentials>>
    /\ pc' = "ready"
    /\ UNCHANGED <<argv, environ, path, opts, remaining_args, client_name, child,
                   exit_code, raised, status>>

\* if role_arn: env_vars = assume_role_using_arn(role_arn, env_vars)
\* The STS call succeeds or raises; an exception is not caught and ends main.
MainAssumeRole ==
    /\ pc = "determined"
    /\ Truthy(opts.role_arn)
    /\ \/ \E creds \in TemporaryCredentials :
            /\ env_vars' = assume_role_using_arn(opts.role_arn, env_vars, creds)
            /\ credentials' = creds
            /\ assumed' = "ok"
            /\ pc' = "ready"
            /\ UNCHANGED <<raised, status>>
       \/ /\ assumed' = "failed"
          /\ raised' = "ClientError"
          /\ status' = 1
          /\ pc' = "exited"
          /\ UNCHANGED <<env_vars, credentials>>
    /\ UNCHANGED <<argv, environ, path, opts, remaining_args, client_name, child, exit_code>>

MainSkipAssumeRole ==
    /\ pc = "determined"
    /\ ~Truthy(opts.role_arn)
    /\ pc' = "ready"
    /\ UNCHANGED <<argv, environ, path, opts, remaining_args, client_name, env_vars,
                   assumed, credentials, child, exit_code, raised, status>>

\* the assignments of the call's outcome r
MainExecuteClientReturn(r) ==
    /\ child' = r.child
    /\ remaining_args' = r.cmd_args
    /\ env_vars' = r.env_vars
    /\ IF r.raised = None
       THEN /\ exit_code' = r.exit_code
            /\ pc' = "executed"
            /\ UNCHANGED <<raised, status>>
       ELSE /\ raised' = r.raised
            /\ status' = 1
            /\ pc' = "exited"
            /\ UNCHANGED exit_code

\* exit_code = execute_client(client_name, remaining_args, env_vars)
MainExecuteClient ==
    /\ pc = "ready"
    /\ \E rc \in 0..MaxExitCode :
         MainExecuteClientReturn(execute_client(client_name, remaining_args, env_vars, rc))
    /\ UNCHANGED <<argv, environ, path, opts, client_name, assumed, credentials>>

\* if exit_code != 0: sys.exit(exit_code); otherwise main returns, status 0
MainExit ==
    /\ pc = "executed"
    /\ status' = exit_code
    /\ pc' = "exited"
    /\ UNCHANGED <<argv, environ, path, opts, remaining_args, client_name, env_vars,
                   assumed, credentials, child, exit_code, raised>>

Next ==
    \/ MainParseCommandLine
    \/ MainDetermineClient
    \/ MainAssumeRole
    \/ MainSkipAssumeRole
    \/ MainExecuteClient
    \/ MainExit

Spec == Init /\ [][Next]_vars

(***************************************************************************)
(* execute_client called directly, on any client name, argument list,      *)
(* environment map and process environment.                                *)
(***************************************************************************)
InitExecute ==
    /\ pc = "ready"
    /\ argv = <<>>
    /\ client_name \in Clients \cup {"bogus", None}
    /\ remaining_args \in ArgLists
    /\ \E s3ak \in {None, "", "s3key"}, s3sk \in {None, "", "s3secret"},
          awsep \in {None, "", "http://aws-s3"}, ep \in {None, "", "http://s3"},
          region \in {None, "us"} :
            environ = Bind("S3_ACCESS_KEY", s3ak) @@ Bind("S3_SECRET_KEY", s3sk)
                      @@ Bind("AWS_ENDPOINT_URL_S3", awsep) @@ Bind("S3_ENDPOINT_URL", ep)
                      @@ Bind("S3_REGION", region) @@ ("HOME" :> "/root")
    /\ \E ak \in {None, "", "envkey"}, sk \in {None, "envsecret"}, tok \in {None, "envtoken"} :
            env_vars = Bind("AWS_ACCESS_KEY_ID", ak) @@ Bind("AWS_SECRET_ACCESS_KEY", sk)
                       @@ Bind("AWS_SESSION_TOKEN", tok) @@ ("HOME" :> "/root")
    /\ path \in {Clients \ {c} : c \in Clients} \cup {Clients}
    /\ opts = [client_name |-> client_name, role_arn |-> None]
    /\ assumed = "no"
    /\ credentials = NoCredentials
    /\ child = NoChild
    /\ exit_code = NoCode
    /\ raised = None
    /\ status = NoCode

NextExecute == MainExecuteClient

SpecExecute == InitExecute /\ [][NextExecute]_vars

(***************************************************************************)
(* Properties.                                                             *)
(***************************************************************************)

\* whether the command line gives option `name` (with a value) before parsing stops
RECURSIVE OptionGiven(_, _)
OptionGiven(rargs, name) ==
    IF rargs = <<>> \/ Head(rargs) = "--" THEN FALSE
    ELSE IF Head(rargs) \in {"--client", "--role-arn"}
    THEN Len(rargs) >= 2 /\ (Head(rargs) = name \/ OptionGiven(SubSeq(rargs, 3, Len(rargs)), name))
    ELSE IF Head(rargs) \in OptionLike THEN FALSE
    ELSE OptionGiven(Tail(rargs), name)

\* the first of s5cmd, s4cmd, aws on PATH
FirstOnPath ==
    IF "s5cmd" \in path THEN "s5cmd"
    ELSE IF "s4cmd" \in path THEN "s4cmd"
    ELSE IF "aws" \in path THEN "aws"
    ELSE None

\* the fixed prefix of a client's command
Prefix(c) == IF c = "aws" THEN <<"aws", "s3">> ELSE <<c>>

\* the endpoint option of a client
EndpointFlag(c) == IF c = "aws" THEN "--endpoint-url" ELSE "--endpoint"

\* what follows the prefix and the given arguments in a command
Suffix(cmd, c, args) == SubSeq(cmd, Len(Prefix(c)) + Len(args) + 1, Len(cmd))

\* flag immediately followed by value somewhere in list
Carries(list, flag, value) ==
    \E i \in 1..(Len(list) - 1) : list[i] = flag /\ list[i + 1] = value

\* the configured endpoint: AWS_ENDPOINT_URL_S3 when set and non-empty, else S3_ENDPOINT_URL
ConfiguredEndpoint ==
    IF "AWS_ENDPOINT_URL_S3" \in DOMAIN environ /\ environ["AWS_ENDPOINT_URL_S3"] # ""
    THEN environ["AWS_ENDPOINT_URL_S3"]
    ELSE IF "S3_ENDPOINT_URL" \in DOMAIN environ THEN environ["S3_ENDPOINT_URL"]
    ELSE None

\* a step of execute_client on a known client that starts the child
StartsChild == pc = "ready" /\ client_name \in Clients /\ child'.started

\* C1: the dispatcher's exit status is the exit code of the child, whatever it is.
C1_ExitCodePropagated ==
    (pc = "exited" /\ child.started) => status = child.returncode

\* C2: without --client the client is the first of s5cmd, s4cmd, aws on PATH;
\* with --client it is the name given.
C2_ClientSelection ==
    pc \in {"determined", "ready", "executed"} =>
        /\ ~OptionGiven(argv, "--client") => client_name = FirstOnPath
        /\ OptionGiven(argv, "--client") => client_name = opts.client_name

\* C3 as claimed: whenever --role-arn is given, a started child implies a successful
\* role assumption, and a failed role assumption implies no child.
C3_RoleGivenBeforeChild ==
    /\ (OptionGiven(argv, "--role-arn") /\ child.started) => assumed = "ok"
    /\ assumed = "failed" => ~child.started

\* C3 amended: whenever --role-arn is given with a non-empty value, a started child
\* implies a successful role assumption; a failed role assumption implies no child.
C3_RoleAssumedBeforeChild ==
    /\ (Truthy(opts.role_arn) /\ child.started) => assumed = "ok"
    /\ assumed = "failed" => ~child.started

C3_Witness ==
    /\ pc = "exited" /\ child.started /\ assumed = "ok"
    /\ OptionGiven(argv, "--role-arn") /\ Truthy(opts.role_arn)

C5_CredentialDefaults ==
    [][StartsChild =>
          /\ Get(child'.env, "AWS_ACCESS_KEY_ID") =
                IF "AWS_ACCESS_KEY_ID" \in DOMAIN env_vars THEN env_vars["AWS_ACCESS_KEY_ID"]
                ELSE IF "S3_ACCESS_KEY" \in DOMAIN environ /\ environ["S3_ACCESS_KEY"] # ""
                     THEN environ["S3_ACCESS_KEY"]
                     ELSE None
          /\ Get(child'.env, "AWS_SECRET_ACCESS_KEY") =
                IF "AWS_SECRET_ACCESS_KEY" \in DOMAIN env_vars THEN env_vars["AWS_SECRET_ACCESS_KEY"]
                ELSE IF "S3_SECRET_KEY" \in DOMAIN environ /\ environ["S3_SECRET_KEY"] # ""
                     THEN environ["S3_SECRET_KEY"]
                     ELSE None
          /\ \A k \in (DOMAIN env_vars \cup DOMAIN child'.env)
                        \ {"AWS_ACCESS_KEY_ID", "AWS_SECRET_ACCESS_KEY"} :
                Get(child'.env, k) = Get(env_vars, k)]_vars

C5_Witness ==
    /\ pc = "executed" /\ child.started
    /\ Get(child.env, "AWS_ACCESS_KEY_ID") = "s3key"
    /\ Get(child.env, "AWS_SECRET_ACCESS_KEY") = "envsecret"
    /\ Get(environ, "S3_SECRET_KEY") = "s3secret"

\* C6 as claimed: for each of the three clients, when AWS_ENDPOINT_URL_S3 or
\* S3_ENDPOINT_URL is set (so that there is a configured endpoint) and the arguments
\* hold no endpoint option, the child's command line carries the configured
\* endpoint as an endpoint option.
C6_EndpointForAllClients ==
    [][(/\ StartsChild
        /\ ConfiguredEndpoint # None
        /\ ~Contains(remaining_args, "--endpoint-url")
        /\ ~Contains(remaining_args, "--endpoint")) =>
          \E flag \in {"--endpoint-url", "--endpoint"} :
              Carries(child'.cmd, flag, ConfiguredEndpoint)]_vars

\* C6 amended: for aws and s4cmd, when AWS_ENDPOINT_URL_S3 is set and non-empty or
\* S3_ENDPOINT_URL is set, and the arguments hold no endpoint option, the options
\* appended to the child's command line carry that endpoint under the client's
\* endpoint option.
C6_EndpointForAwsAndS4cmd ==
    [][(/\ StartsChild
        /\ client_name \in {"aws", "s4cmd"}
        /\ ConfiguredEndpoint # None
        /\ ~Contains(remaining_args, "--endpoint-url")
        /\ ~Contains(remaining_args, "--endpoint")) =>
          Carries(Suffix(child'.cmd, client_name, remaining_args),
                  EndpointFlag(client_name), ConfiguredEndpoint)]_vars

C6_Witness ==
    /\ pc = "executed" /\ child.started /\ client_name = "s4cmd"
    /\ "AWS_ENDPOINT_URL_S3" \notin DOMAIN environ
    /\ child.cmd = <<"s4cmd", "ls", "--endpoint", "http://s3">>

\* C7: for aws and s4cmd the endpoint value injected is AWS_ENDPOINT_URL_S3 when that
\* is set and non-empty, otherwise S3_ENDPOINT_URL; when neither variable is set no
\* endpoint option is appended.
C7_EndpointPrecedence ==
    [][(StartsChild /\ client_name \in {"aws", "s4cmd"}) =>
          LET suffix == Suffix(child'.cmd, client_name, remaining_args)
              flag == EndpointFlag(client_name)
          IN  /\ (Len(suffix) >= 2 /\ suffix[1] = flag) =>
                    suffix[2] = IF Truthy(Get(environ, "AWS_ENDPOINT_URL_S3"))
                                THEN Get(environ, "AWS_ENDPOINT_URL_S3")
                                ELSE Get(environ, "S3_ENDPOINT_URL")
              /\ ("AWS_ENDPOINT_URL_S3" \notin DOMAIN environ /\
                  "S3_ENDPOINT_URL" \notin DOMAIN environ) => ~Contains(suffix, flag)]_vars

C7_Witness ==
    /\ pc = "executed" /\ child.started /\ client_name = "aws"
    /\ Get(environ, "S3_ENDPOINT_URL") = "http://s3"
    /\ child.cmd = <<"aws", "s3", "ls", "--endpoint-url", "http://aws-s3">>

\* C8: augmentation never appends an option the given arguments already contain:
\* --endpoint-url for aws, --endpoint and --region for s4cmd.
C8_NoDuplicateFlag ==
    [][StartsChild =>
          \A flag \in (IF client_name = "aws" THEN {"--endpoint-url"}
                       ELSE IF client_name = "s4cmd" THEN {"--endpoint", "--region"}
                       ELSE {}) :
              Contains(remaining_args, flag) =>
                  ~Contains(Suffix(child'.cmd, client_name, remaining_args), flag)]_vars

\* C9: after a successful role assumption the child's AWS_ACCESS_KEY_ID,
\* AWS_SECRET_ACCESS_KEY and AWS_SESSION_TOKEN are the temporary credentials.
C9_TemporaryCredentialsKept ==
    (assumed = "ok" /\ child.started) =>
        /\ Get(child.env, "AWS_ACCESS_KEY_ID") = credentials.AccessKeyId
        /\ Get(child.env, "AWS_SECRET_ACCESS_KEY") = credentials.SecretAccessKey
        /\ Get(child.env, "AWS_SESSION_TOKEN") = credentials.SessionToken

C9_Witness ==
    /\ assumed = "ok" /\ child.started
    /\ Get(environ, "S3_ACCESS_KEY") = "s3key"
    /\ Get(environ, "AWS_ACCESS_KEY_ID") = "envkey"
    /\ Get(environ, "AWS_SESSION_TOKEN") = "envtoken"
    /\ Get(child.env, "AWS_ACCESS_KEY_ID") = "ASIATEMP"

\* C10: the command is the client's prefix, then the arguments given to
\* execute_client in their order, then only injected options (none for s5cmd).
C10_CommandShape ==
    [][StartsChild =>
          LET n == Len(Prefix(client_name))
              suffix == Suffix(child'.cmd, client_name, remaining_args)
              injected == IF client_name = "aws" THEN {"--endpoint-url"}
                          ELSE IF client_name = "s4cmd" THEN {"--endpoint", "--region"}
                          ELSE {}
          IN  /\ Len(child'.cmd) >= n + Len(remaining_args)
              /\ SubSeq(child'.cmd, 1, n) = Prefix(client_name)
              /\ SubSeq(child'.cmd, n + 1, n + Len(remaining_args)) = remaining_args
              /\ Len(suffix) % 2 = 0
              /\ \A i \in 1..Len(suffix) : i % 2 = 1 => suffix[i] \in injected]_vars

C10_Witness ==
    /\ pc = "executed" /\ child.started
    /\ child.cmd = <<"s4cmd", "ls", "--endpoint", "http://user",
                     "--endpoint", "http://s3", "--region", "us">>

====
